---- MODULE Spec2Model ----
(***************************************************************************)
(* A model of 02_first_stage_ML/AOD_impute.py: load_and_sample_df,         *)
(* run_outer_cv and main.                                                  *)
(*                                                                         *)
(* A table is modelled by the columns it has (a set of column names) and   *)
(* by its rows.  A row keeps the fields the program's control flow reads:  *)
(* grid_id (fine spatial identifier), ym (the year-month of its date),     *)
(* g50 (grid_id_50km: {} for a null, {g} for the value g) and key, which   *)
(* stands for the rest of the row (day of the month, covariates, target).  *)
(* The primary table is a bag of rows: pandas groups it by key and samples *)
(* each group at random, so the order of its rows decides nothing.  The    *)
(* sampled frame is a sequence: its positions are the row indices that     *)
(* GroupKFold partitions.                                                  *)
(*                                                                         *)
(* pandas, scikit-learn and xgboost are libraries the program calls.  The  *)
(* model follows what they do on the calls the program makes: a column     *)
(* selection of an absent column raises KeyError, groupby drops null keys, *)
(* DataFrame.sample(frac) draws round(frac * len) rows without             *)
(* replacement, GroupKFold.split raises ValueError with fewer groups than  *)
(* splits, and fit or predict either return or raise.  The frame that      *)
(* groupby(...).apply gives keeps the grouping columns, as it does in the  *)
(* pandas releases before 3.0.                                             *)
(*                                                                         *)
(* A run starts with the imports at the head of the file.  Line 20 imports  *)
(* GroupKFold, RandomizedSearchCV and shuffle from sklearn.model_selection; *)
(* the names that module provides belong to the installation the script    *)
(* runs in and are an input of the run (model_selection).  The released    *)
(* scikit-learn provides no shuffle there (it is sklearn.utils.shuffle):   *)
(* in such an installation the run ends in the ImportError of line 20 and  *)
(* main() is never called.  The steps of main() are those of a run in an   *)
(* installation whose sklearn.model_selection provides the three names.    *)
(***************************************************************************)
EXTENDS Integers, Sequences, FiniteSets, TLC

\* ------------------------------------------------------------ constants

\* GroupKFold(n_splits=10)
NSplits == 10
\* x.sample(frac=0.03, ...): the fraction as FracNum / FracDen
FracNum == 3
FracDen == 100

\* main: feature_cols
FeatureCols ==
    {"aot_daily", "co_daily", "v_wind", "u_wind", "rainfall", "temp",
     "pressure", "thermal_radiation", "low_veg", "high_veg", "dewpoint_temp",
     "month", "day_of_year", "cos_day_of_year", "monsoon", "lon", "lat",
     "wind_degree", "RH", "aot_rolling", "co_rolling", "omi_no2_rolling",
     "v_wind_rolling", "u_wind_rolling", "rainfall_rolling", "temp_rolling",
     "wind_degree_rolling", "RH_rolling", "thermal_radiation_rolling",
     "dewpoint_temp_rolling", "aot_daily_annual", "co_daily_annual",
     "omi_no2_annual", "v_wind_annual", "u_wind_annual", "rainfall_annual",
     "thermal_radiation_annual", "low_veg_annual", "high_veg_annual",
     "dewpoint_temp_annual", "wind_degree_annual", "RH_annual",
     "co_daily_allyears"}
\* main: target_col
TargetCol == "aod"
\* main: the group_col argument of run_outer_cv
GroupCol == "grid_id_50km"
\* run_outer_cv: X_trn[['date', 'grid_id']]
IdCols == {"date", "grid_id"}
\* run_outer_cv: drop_cols
DropCols == {"date", "grid_id", "grid_id_50km", "year_month"}
\* load_and_sample_df: the groupby keys
SampleKeys == {"grid_id_50km", "year_month"}
\* the columns of grid_intersect_with_50km.csv after the rename of grid_id_10km
GridCols == {"grid_id", "grid_id_50km"}
\* from sklearn.model_selection import GroupKFold, RandomizedSearchCV, shuffle
ImportNames == {"GroupKFold", "RandomizedSearchCV", "shuffle"}

\* --------------------------------------------------------------- bounds

\* the smallest cell the sampler draws one row from, and a cell it draws two from
SmallCell == 17
TieCell == 50
\* rows of a small primary table
MaxRows == 20
\* coarse groups of a large primary table, and how many of them are heavy
MaxGroups == 11
MaxHeavy == 1

FineIds == {1, 2}
Months == {1, 2}
BlockSizes == {0, 1, SmallCell - 1, SmallCell}
MinGroups == NSplits - 1
\* the feature column whose absence the inputs try
DefectCols == {"aot_daily"}

\* ---------------------------------------------------------------- state

VARIABLES
    pc, err,
    \* the names sklearn.model_selection provides, the input files and main's
    \* feature list
    model_selection,
    primary, primaryCols, gridExists, gridRows, missingCols, features,
    \* load_and_sample_df
    df, dfCols, cellPos, applied, df_sampled, sampledCols, snapshot,
    \* run_outer_cv
    df_ml, mlCols, Xcols, outer_cv, fold, train_df, eval_df,
    dfs_importance, train_dfs, eval_dfs, trn_metrics, cv_metrics,
    model_xgb, slurm_cpus, fitLog, evalLog, reported, saveI, files,
    \* main, step 4
    final_model, imputeModel, imputed

inputs == <<model_selection, primary, primaryCols, gridExists, gridRows,
            missingCols, features>>
samp == <<df, dfCols, cellPos, applied, df_sampled, sampledCols, snapshot>>
cvIn == <<df_ml, mlCols, Xcols, outer_cv>>
cvLoop == <<fold, train_df, eval_df, dfs_importance, train_dfs, eval_dfs,
            trn_metrics, cv_metrics, model_xgb, slurm_cpus, fitLog, evalLog>>
cvOut == <<reported, saveI, files>>
imp == <<final_model, imputeModel, imputed>>
vars == <<pc, err, inputs, samp, cvIn, cvLoop, cvOut, imp>>

\* -------------------------------------------------------------- helpers

NoErr == [kind |-> "none", line |-> 0]
Raise(kind, line) == [kind |-> kind, line |-> line]
\* line 101, os.getenv("SLURM_CPUS_PER_TASK", 4): the text of the variable in
\* the environment of the process, or that it is not set.  The environment
\* does not change during a run: the value is drawn where line 101 first
\* reads it and every later read gives the same.
NotRead == "(not read)"
Unset == "(not set)"
IntTexts == {"8"}
SlurmValues == {Unset} \cup IntTexts \cup {"abc"}
\* int(...) of the default 4 or of the text of an integer returns; of any other
\* text it raises ValueError
IntRaises(v) == v # Unset /\ v \notin IntTexts

\* a regressor: the fold that made it, whether fit has returned on it, and
\* the columns and training rows of that fit
NoModel == [fold |-> 0, fitted |-> FALSE, cols |-> {}, rows |-> {}]
NoTable == [rows |-> {}, cols |-> {}]
NoFile == [exists |-> FALSE, rows |-> <<>>, cols |-> {}]

Row(f, m, k, g) == [grid_id |-> f, ym |-> m, key |-> k, g50 |-> g]

\* df[cols], df[col]: pandas raises KeyError unless every column is there
HasColumnsLenient(cols, want) == TRUE
HasColumns(cols, want) == want \subseteq cols

Support(b) == {r \in DOMAIN b : b[r] > 0}
RECURSIVE SumOver(_, _)
SumOver(f, S) ==
    IF S = {} THEN 0
    ELSE LET x == CHOOSE x \in S : TRUE IN f[x] + SumOver(f, S \ {x})
BagSize(b) == SumOver(b, DOMAIN b)
Range(s) == {s[i] : i \in 1..Len(s)}
Occurrences(s, r) == Cardinality({i \in 1..Len(s) : s[i] = r})

\* ------------------------------------------------ load_and_sample_df

\* pd.merge(df, grid_50km, how='left', on='grid_id'): every left row once per
\* matching grid row, and once with a null grid_id_50km when none matches
MergeLeft(b, grid) ==
    LET match(r) == {p \in grid : p[1] = r.grid_id}
        out(r) == IF match(r) = {} THEN {[r EXCEPT !.g50 = {}]}
                  ELSE {[r EXCEPT !.g50 = {p[2]}] : p \in match(r)}
        rows == UNION {out(r) : r \in Support(b)}
        src(q) == {r \in Support(b) : q \in out(r)}
    IN [q \in rows |-> SumOver(b, src(q))]

\* the column names after the merge: a column both sides have, other than the
\* join key, comes out twice, suffixed _x and _y
MergeCols(cols) ==
    IF GroupCol \in cols
    THEN (cols \ {GroupCol}) \cup {"grid_id_50km_x", "grid_id_50km_y"}
    ELSE cols \cup GridCols

\* groupby(['grid_id_50km', 'year_month']): the keys of the groups; rows with a
\* null key are in no group (dropna=True is the default)
CellKeysKeepNull(b) ==
    {<<r.g50, r.ym>> : r \in Support(b)}
CellKeys(b) ==
    {<<r.g50, r.ym>> : r \in {q \in Support(b) : q.g50 # {}}}

KeyValue(k) == IF k[1] = {} THEN 0 ELSE CHOOSE g \in k[1] : TRUE
KeyLess(a, b) ==
    \/ KeyValue(a) < KeyValue(b)
    \/ KeyValue(a) = KeyValue(b) /\ a[2] < b[2]
\* groupby sorts the group keys (sort=True is the default)
RECURSIVE SortKeys(_)
SortKeys(S) ==
    IF S = {} THEN <<>>
    ELSE LET m == CHOOSE a \in S : \A b \in S \ {a} : KeyLess(a, b)
         IN <<m>> \o SortKeys(S \ {m})

\* the rows of one group
Cell(b, k) == [r \in {q \in Support(b) : <<q.g50, q.ym>> = k} |-> b[r]]

\* round(frac * len): Python's round, half to even
SampleSizeTruncated(n) == (FracNum * n) \div FracDen
SampleSize(n) ==
    LET q == (FracNum * n) \div FracDen
        r == (FracNum * n) % FracDen
    IN IF 2 * r < FracDen THEN q
       ELSE IF 2 * r > FracDen THEN q + 1
       ELSE IF q % 2 = 0 THEN q ELSE q + 1

\* x.sample(frac, replace=False): every sequence of n rows drawn from the cell
\* without replacement (the generator's draw is not modelled: any draw)
RECURSIVE Picks(_, _)
Picks(b, n) ==
    IF n = 0 THEN {<<>>}
    ELSE UNION {{<<r>> \o s : s \in Picks([b EXCEPT ![r] = @ - 1], n - 1)} :
                r \in Support(b)}

\* ------------------------------------------------------------ the inputs

BaseCols == FeatureCols \cup IdCols \cup {TargetCol}
MissingFull == FeatureCols \cup IdCols

\* a small primary table: one block of rows per fine identifier and month, every
\* row its own key; own: the table brings its own grid_id_50km column
SmallTable(bs, own) ==
    [r \in UNION {{Row(c[1], c[2], k, IF own THEN {c[1]} ELSE {}) :
                     k \in 1..bs[c]} : c \in FineIds \X Months}
     |-> 1]
SmallBlocks ==
    {bs \in [FineIds \X Months -> BlockSizes] :
       SumOver(bs, FineIds \X Months) <= MaxRows}
\* the mapping file: absent, or its (fine, coarse) rows
GridVariants ==
    {<<FALSE, {}>>, <<TRUE, {<<1, 1>>}>>, <<TRUE, {<<1, 1>>, <<2, 1>>}>>,
     <<TRUE, {<<1, 1>>, <<2, 2>>}>>, <<TRUE, {<<1, 1>>, <<1, 2>>, <<2, 2>>}>>}
SmallInputs ==
    {[primary |-> SmallTable(bs, own),
      primaryCols |-> BaseCols \cup (IF own THEN {GroupCol} ELSE {}),
      gridExists |-> gv[1], gridRows |-> gv[2], missingCols |-> MissingFull] :
       bs \in SmallBlocks, own \in BOOLEAN, gv \in GridVariants}

\* a large primary table: one fine identifier per coarse group, one month, a
\* cell of SmallCell rows (one sampled row) or, for a heavy group, of TieCell
\* rows (two sampled rows); the rows of a cell agree on every modelled field
LargeTable(G, H) ==
    [r \in {Row(g, 1, 0, {}) : g \in 1..G} |->
       IF r.grid_id \in H THEN TieCell ELSE SmallCell]
PrimaryDefects == {{}} \cup {{c} : c \in IdCols \cup {TargetCol} \cup DefectCols}
MissingDefects == {{}, {"date"}} \cup {{c} : c \in DefectCols}
LargeInputsOf(G) ==
    {[primary |-> LargeTable(G, H), primaryCols |-> BaseCols \ d,
      gridExists |-> TRUE, gridRows |-> {<<g, g>> : g \in 1..G},
      missingCols |-> MissingFull \ e] :
       H \in {S \in SUBSET (1..G) : Cardinality(S) <= MaxHeavy},
       d \in PrimaryDefects, e \in MissingDefects}
LargeInputs == UNION {LargeInputsOf(G) : G \in MinGroups..MaxGroups}
\* one cell of TieCell rows, every row its own key: two rows are drawn from it
TieInputs ==
    {[primary |-> [r \in {Row(1, 1, k, {}) : k \in 1..TieCell} |-> 1],
      primaryCols |-> BaseCols, gridExists |-> TRUE, gridRows |-> {<<1, 1>>},
      missingCols |-> MissingFull]}
\* a mapping file that covers one of two fine identifiers, SmallCell rows each
HalfMappedInputs ==
    {[primary |-> [r \in {Row(f, 1, k, {}) : f \in FineIds, k \in 1..SmallCell}
                   |-> 1],
      primaryCols |-> BaseCols, gridExists |-> TRUE, gridRows |-> {<<1, 1>>},
      missingCols |-> MissingFull]}
Inputs == SmallInputs \cup TieInputs \cup HalfMappedInputs \cup LargeInputs

\* features is a parameter of run_outer_cv (line 72).  main passes one list,
\* FeatureCols (lines 157-166, 184); the second list, FeatureCols with the
\* identifying columns that line 91 selects from X, is one main never passes:
\* it is the call of run_outer_cv under which the fold loop gets past line 91
FeatureLists == {FeatureCols, FeatureCols \cup IdCols}

\* sklearn.model_selection as scikit-learn releases it (no shuffle), and one
\* that provides every name line 20 asks for
ModelSelections == {ImportNames \ {"shuffle"}, ImportNames}

InitWith(in, feats) ==
    /\ pc = "import" /\ err = NoErr
    /\ model_selection \in ModelSelections
    /\ primary = in.primary /\ primaryCols = in.primaryCols
    /\ gridExists = in.gridExists /\ gridRows = in.gridRows
    /\ missingCols = in.missingCols /\ features = feats
    /\ df = <<>> /\ dfCols = {} /\ cellPos = 0 /\ applied = <<>>
    /\ df_sampled = <<>> /\ sampledCols = {} /\ snapshot = NoFile
    /\ df_ml = <<>> /\ mlCols = {} /\ Xcols = {} /\ outer_cv = <<>>
    /\ fold = 0 /\ train_df = NoTable /\ eval_df = NoTable
    /\ dfs_importance = <<>> /\ train_dfs = <<>> /\ eval_dfs = <<>>
    /\ trn_metrics = <<>> /\ cv_metrics = <<>>
    /\ model_xgb = NoModel /\ slurm_cpus = NotRead
    /\ fitLog = {} /\ evalLog = {}
    /\ reported = FALSE /\ saveI = 0 /\ files = <<>>
    /\ final_model = NoModel /\ imputeModel = NoModel /\ imputed = FALSE

\* main as written: feature_cols is a constant of main
Init == \E in \in Inputs : InitWith(in, FeatureCols)
\* run_outer_cv under every feature list of FeatureLists: the runs of Init,
\* and the runs of a caller that passes the second list
InitCV == \E in \in Inputs, feats \in FeatureLists : InitWith(in, feats)

Fail(kind, line) ==
    /\ pc' = "error"
    /\ err' = Raise(kind, line)

\* lines 15-22: from ... import raises ImportError for a name the module lacks
Import ==
    /\ pc = "import"
    /\ IF ImportNames \subseteq model_selection
       THEN pc' = "load" /\ err' = err
       ELSE Fail("ImportError", 20)
    /\ UNCHANGED <<inputs, samp, cvIn, cvLoop, cvOut, imp>>

\* lines 36-39: df is bound to the table read (line 37) before line 38 selects
\* its date column
Load ==
    /\ pc = "load"
    /\ df' = primary /\ dfCols' = primaryCols
    /\ IF ~HasColumns(primaryCols, {"date"})
       THEN Fail("KeyError", 38)
       ELSE pc' = "merge" /\ err' = err
    /\ UNCHANGED <<inputs, cellPos, applied, df_sampled, sampledCols, snapshot,
                   cvIn, cvLoop, cvOut, imp>>

\* lines 41-49
Merge ==
    /\ pc = "merge"
    /\ IF gridExists
       THEN IF ~HasColumns(dfCols, {"grid_id"})
            THEN Fail("KeyError", 47) /\ UNCHANGED <<df, dfCols>>
            ELSE /\ df' = MergeLeft(df, gridRows)
                 /\ dfCols' = MergeCols(dfCols)
                 /\ pc' = "year_month" /\ err' = err
       ELSE /\ pc' = "year_month" /\ err' = err
            /\ UNCHANGED <<df, dfCols>>
    /\ UNCHANGED <<inputs, cellPos, applied, df_sampled, sampledCols, snapshot,
                   cvIn, cvLoop, cvOut, imp>>

\* line 52
YearMonth ==
    /\ pc = "year_month"
    /\ dfCols' = dfCols \cup {"year_month"}
    /\ pc' = "sample"
    /\ UNCHANGED <<err, inputs, df, cellPos, applied, df_sampled, sampledCols,
                   snapshot, cvIn, cvLoop, cvOut, imp>>

\* lines 55-56: groupby(...).apply(lambda x: x.sample(...)), one group a step,
\* in the order of the sorted keys
SampleCell ==
    /\ pc = "sample"
    /\ IF ~HasColumns(dfCols, SampleKeys)
       THEN Fail("KeyError", 55) /\ UNCHANGED <<cellPos, applied>>
       ELSE LET keys == SortKeys(CellKeys(df)) IN
            /\ cellPos < Len(keys)
            /\ LET cell == Cell(df, keys[cellPos + 1]) IN
               \E s \in Picks(cell, SampleSize(BagSize(cell))) :
                  applied' = applied \o s
            /\ cellPos' = cellPos + 1
            /\ UNCHANGED <<pc, err>>
    /\ UNCHANGED <<inputs, df, dfCols, df_sampled, sampledCols, snapshot,
                   cvIn, cvLoop, cvOut, imp>>

\* line 57: reset_index(drop=True) on the concatenated draws
ResetIndex ==
    /\ pc = "sample"
    /\ HasColumns(dfCols, SampleKeys)
    /\ cellPos = Len(SortKeys(CellKeys(df)))
    /\ df_sampled' = applied
    /\ sampledCols' = dfCols
    /\ pc' = "print"
    /\ UNCHANGED <<err, inputs, df, dfCols, cellPos, applied, snapshot,
                   cvIn, cvLoop, cvOut, imp>>

\* lines 59-61
PrintSample ==
    /\ pc = "print"
    /\ IF ~HasColumns(sampledCols, {"grid_id"})
       THEN Fail("KeyError", 60)
       ELSE IF ~HasColumns(sampledCols, {GroupCol})
       THEN Fail("KeyError", 61)
       ELSE pc' = "save_sample" /\ err' = err
    /\ UNCHANGED <<inputs, samp, cvIn, cvLoop, cvOut, imp>>

\* lines 63-67
SaveSample ==
    /\ pc = "save_sample"
    /\ snapshot' = [exists |-> TRUE, rows |-> df_sampled, cols |-> sampledCols]
    /\ pc' = "read_ml"
    /\ UNCHANGED <<err, inputs, df, dfCols, cellPos, applied, df_sampled,
                   sampledCols, cvIn, cvLoop, cvOut, imp>>

\* lines 150-154: the snapshot read back; to_csv(index=False) and read_csv keep
\* the rows, their order and the columns
ReadMl ==
    /\ pc = "read_ml"
    /\ df_ml' = snapshot.rows /\ mlCols' = snapshot.cols
    /\ IF ~HasColumns(snapshot.cols, {"date"})
       THEN Fail("KeyError", 153)
       ELSE IF ~HasColumns(snapshot.cols, {"grid_id"})
       THEN Fail("KeyError", 154)
       ELSE pc' = "cv_select" /\ err' = err
    /\ UNCHANGED <<inputs, samp, Xcols, outer_cv, cvLoop, cvOut, imp>>

\* ------------------------------------------------------- run_outer_cv

GroupId(r) == CHOOSE g \in r.g50 : TRUE
\* df[group_col] as GroupKFold reads it
Groups(rows) == [i \in 1..Len(rows) |-> GroupId(rows[i])]

\* GroupKFold.split: ValueError when n_splits exceeds the number of samples or
\* the number of distinct groups
SplitErrorNever(gs) == FALSE
SplitError(gs) == NSplits > Len(gs) \/ NSplits > Cardinality(Range(gs))

\* np.argsort(n_samples_per_group)[::-1]: the groups by decreasing size; the
\* default sort is not stable, so the order of groups of one size is the
\* build's: "stable" is a stable sort reversed, "reverse" the other way round
TieBreaks == {"stable", "reverse"}
Before(a, b, cnt, tb) ==
    \/ cnt[a] > cnt[b]
    \/ cnt[a] = cnt[b] /\ (IF tb = "stable" THEN a > b ELSE a < b)
RECURSIVE OrderGroups(_, _, _)
OrderGroups(S, cnt, tb) ==
    IF S = {} THEN <<>>
    ELSE LET m == CHOOSE a \in S : \A b \in S \ {a} : Before(a, b, cnt, tb)
         IN <<m>> \o OrderGroups(S \ {m}, cnt, tb)
\* np.argmin(n_samples_per_fold): the first of the lightest folds
Lightest(load) ==
    CHOOSE f \in 1..NSplits :
       \A h \in 1..NSplits : load[f] < load[h] \/ (load[f] = load[h] /\ f <= h)
\* the greedy assignment of the groups, largest first, to the lightest fold
RECURSIVE Assign(_, _, _, _, _)
Assign(order, i, cnt, load, g2f) ==
    IF i > Len(order) THEN g2f
    ELSE LET f == Lightest(load)
             g == order[i]
         IN Assign(order, i + 1, cnt, [load EXCEPT ![f] = @ + cnt[g]],
                   [g2f EXCEPT ![g] = f])

\* KFold: consecutive blocks of row positions, whatever the groups
KFoldFolds(gs, tb) ==
    LET n == Len(gs)
        size(f) == (n \div NSplits) + (IF f <= n % NSplits THEN 1 ELSE 0)
        start(f) == (f - 1) * (n \div NSplits)
                    + (IF f - 1 <= n % NSplits THEN f - 1 ELSE n % NSplits)
    IN [f \in 1..NSplits |->
          [val |-> {i \in 1..n : start(f) < i /\ i <= start(f) + size(f)},
           trn |-> {i \in 1..n : ~(start(f) < i /\ i <= start(f) + size(f))}]]
\* list(GroupKFold(n_splits=10).split(X, y, groups)): per fold the train and the
\* validation row positions
GroupKFoldFolds(gs, tb) ==
    LET U == Range(gs)
        cnt == [g \in U |-> Cardinality({i \in 1..Len(gs) : gs[i] = g})]
        g2f == Assign(OrderGroups(U, cnt, tb), 1, cnt,
                      [f \in 1..NSplits |-> 0], [g \in U |-> 0])
    IN [f \in 1..NSplits |->
          [val |-> {i \in 1..Len(gs) : g2f[gs[i]] = f},
           trn |-> {i \in 1..Len(gs) : g2f[gs[i]] # f}]]

\* line 101: model_xgb is bound to a new regressor in every fold
KeepFirstModel(old, fresh) == IF old.fold = 0 THEN fresh ELSE old
NextModel(old, fresh) == fresh

\* lines 137-139: the files of list entry i are named fold_{i+1} (i from 0)
SaveNameFirst(i) == 1
SaveName(i) == i

\* lines 76-77: X is bound (line 76) before line 77 selects the target
CvSelect ==
    /\ pc = "cv_select"
    /\ IF ~HasColumns(mlCols, features)
       THEN Fail("KeyError", 76) /\ UNCHANGED Xcols
       ELSE /\ Xcols' = features
            /\ IF ~HasColumns(mlCols, {TargetCol})
               THEN Fail("KeyError", 77)
               ELSE pc' = "cv_split" /\ err' = err
    /\ UNCHANGED <<inputs, samp, df_ml, mlCols, outer_cv, cvLoop, cvOut, imp>>

\* lines 78-83
CvSplit ==
    /\ pc = "cv_split"
    /\ \E tb \in TieBreaks :
          IF ~HasColumns(mlCols, {GroupCol})
          THEN Fail("KeyError", 79) /\ UNCHANGED outer_cv
          ELSE IF SplitError(Groups(df_ml))
          THEN Fail("ValueError", 79) /\ UNCHANGED outer_cv
          ELSE /\ outer_cv' = GroupKFoldFolds(Groups(df_ml), tb)
               /\ pc' = "fold_begin" /\ err' = err
    /\ UNCHANGED <<inputs, samp, df_ml, mlCols, Xcols, cvLoop, cvOut, imp>>

\* lines 85-94: the next fold of the loop; X_trn[['date', 'grid_id']] selects
\* from X, which holds the feature list's columns
FoldBegin ==
    /\ pc = "fold_begin"
    /\ fold < Len(outer_cv)
    /\ fold' = fold + 1
    /\ IF ~HasColumns(Xcols, IdCols)
       THEN Fail("KeyError", 91) /\ UNCHANGED <<train_df, eval_df>>
       ELSE /\ train_df' = [rows |-> outer_cv[fold + 1].trn,
                            cols |-> IdCols \cup {"y_trn"}]
            /\ eval_df' = [rows |-> outer_cv[fold + 1].val,
                           cols |-> IdCols \cup {"y_val"}]
            /\ pc' = "fit" /\ err' = err
    /\ UNCHANGED <<inputs, samp, cvIn, dfs_importance, train_dfs, eval_dfs,
                   trn_metrics, cv_metrics, model_xgb, slurm_cpus, fitLog,
                   evalLog, cvOut, imp>>

\* lines 96-109: the regressor is made (line 101: int(...) raises before the
\* constructor is called and before model_xgb is bound) and bound to
\* model_xgb, fit is called on the training partition (line 102: when it
\* raises, model_xgb is the new regressor, not fitted), then the importances
Fit ==
    /\ pc = "fit"
    /\ \E v \in IF slurm_cpus = NotRead THEN SlurmValues ELSE {slurm_cpus} :
          /\ slurm_cpus' = v
          /\ IF IntRaises(v)
             THEN /\ Fail("ValueError", 101)
                  /\ UNCHANGED <<model_xgb, dfs_importance, fitLog>>
             ELSE /\ fitLog' = fitLog \cup {fold}
                  /\ \E ok \in BOOLEAN :
                        IF ok
                        THEN /\ model_xgb' = NextModel(model_xgb,
                                   [fold |-> fold, fitted |-> TRUE,
                                    cols |-> Xcols \ DropCols,
                                    rows |-> outer_cv[fold].trn])
                             /\ dfs_importance' = Append(dfs_importance,
                                   [fold |-> fold,
                                    features |-> Xcols \ DropCols])
                             /\ pc' = "train_eval" /\ err' = err
                        ELSE /\ Fail("XGBoostError", 102)
                             /\ model_xgb' = NextModel(model_xgb,
                                   [fold |-> fold, fitted |-> FALSE,
                                    cols |-> {}, rows |-> {}])
                             /\ UNCHANGED dfs_importance
    /\ UNCHANGED <<inputs, samp, cvIn, fold, train_df, eval_df, train_dfs,
                   eval_dfs, trn_metrics, cv_metrics, evalLog, cvOut, imp>>

\* lines 111-118: train_df gets the prediction column in place (line 117) and
\* is appended to train_dfs
TrainEval ==
    /\ pc = "train_eval"
    /\ \E out \in {"ok", "predict", "metric"} :
          IF out = "ok"
          THEN /\ trn_metrics' = Append(trn_metrics, fold)
               /\ train_df' = [train_df EXCEPT
                                 !.cols = @ \cup {"trn_y_pred"}]
               /\ train_dfs' = Append(train_dfs,
                     [fold |-> fold, rows |-> train_df'.rows,
                      cols |-> train_df'.cols])
               /\ pc' = "val_eval" /\ err' = err
          ELSE /\ IF out = "predict" THEN Fail("XGBoostError", 112)
                  ELSE Fail("ValueError", 113)
               /\ UNCHANGED <<trn_metrics, train_df, train_dfs>>
    /\ UNCHANGED <<inputs, samp, cvIn, fold, eval_df, dfs_importance,
                   eval_dfs, cv_metrics, model_xgb, slurm_cpus, fitLog, evalLog,
                   cvOut, imp>>

\* lines 120-129: eval_df gets the prediction column in place (line 122) and
\* is appended to eval_dfs before the validation metrics are computed
ValEval ==
    /\ pc = "val_eval"
    /\ evalLog' = evalLog \cup {fold}
    /\ \E out \in {"ok", "predict", "metric"} :
          IF out = "predict"
          THEN /\ Fail("XGBoostError", 121)
               /\ UNCHANGED <<eval_df, eval_dfs, cv_metrics>>
          ELSE /\ eval_df' = [eval_df EXCEPT !.cols = @ \cup {"y_pred"}]
               /\ eval_dfs' = Append(eval_dfs,
                     [fold |-> fold, rows |-> eval_df'.rows,
                      cols |-> eval_df'.cols])
               /\ IF out = "metric"
                  THEN Fail("ValueError", 124) /\ UNCHANGED cv_metrics
                  ELSE /\ cv_metrics' = Append(cv_metrics, fold)
                       /\ pc' = "fold_begin" /\ err' = err
    /\ UNCHANGED <<inputs, samp, cvIn, fold, train_df, dfs_importance,
                   train_dfs, trn_metrics, model_xgb, slurm_cpus, fitLog, cvOut,
                   imp>>

\* lines 131-133: the loop is over, the averages are printed
Report ==
    /\ pc = "fold_begin"
    /\ fold = Len(outer_cv)
    /\ reported' = TRUE
    /\ saveI' = 1
    /\ pc' = "save"
    /\ UNCHANGED <<err, inputs, samp, cvIn, cvLoop, files, imp>>

\* lines 136-139: the three files of one list entry
SaveFold ==
    /\ pc = "save"
    /\ saveI <= Len(outer_cv)
    /\ files' = files \o
          <<[fold |-> SaveName(saveI), kind |-> "feature_importance",
             data |-> dfs_importance[saveI].fold],
            [fold |-> SaveName(saveI), kind |-> "traindf",
             data |-> train_dfs[saveI].fold],
            [fold |-> SaveName(saveI), kind |-> "evaldf",
             data |-> eval_dfs[saveI].fold]>>
    /\ saveI' = saveI + 1
    /\ UNCHANGED <<pc, err, inputs, samp, cvIn, cvLoop, reported, imp>>

\* line 141, and line 184 of main
Return ==
    /\ pc = "save"
    /\ saveI > Len(outer_cv)
    /\ final_model' = model_xgb
    /\ pc' = "impute_read"
    /\ UNCHANGED <<err, inputs, samp, cvIn, cvLoop, cvOut, imputeModel, imputed>>

\* --------------------------------------------------------- main, step 4

\* lines 188-190
ImputeRead ==
    /\ pc = "impute_read"
    /\ IF ~HasColumns(missingCols, {"date"})
       THEN Fail("KeyError", 190)
       ELSE pc' = "impute_select" /\ err' = err
    /\ UNCHANGED <<inputs, samp, cvIn, cvLoop, cvOut, imp>>

\* line 191
ImputeSelect ==
    /\ pc = "impute_select"
    /\ IF ~HasColumns(missingCols, features)
       THEN Fail("KeyError", 191)
       ELSE pc' = "impute_predict" /\ err' = err
    /\ UNCHANGED <<inputs, samp, cvIn, cvLoop, cvOut, imp>>

\* line 192
ImputePredict ==
    /\ pc = "impute_predict"
    /\ imputeModel' = final_model
    /\ \E ok \in BOOLEAN :
          IF ok THEN pc' = "impute_write" /\ err' = err
          ELSE Fail("XGBoostError", 192)
    /\ UNCHANGED <<inputs, samp, cvIn, cvLoop, cvOut, final_model, imputed>>

\* lines 193-196
ImputeWrite ==
    /\ pc = "impute_write"
    /\ imputed' = TRUE
    /\ pc' = "done"
    /\ UNCHANGED <<err, inputs, samp, cvIn, cvLoop, cvOut, final_model,
                   imputeModel>>

\* ------------------------------------------------------ specifications

\* the script with the feature list main defines: the steps that list lets it
\* reach
Next ==
    \/ Import
    \/ Load \/ Merge \/ YearMonth \/ SampleCell \/ ResetIndex
    \/ PrintSample \/ SaveSample \/ ReadMl
    \/ CvSelect \/ CvSplit \/ FoldBegin
Spec == Init /\ [][Next]_vars

\* the pipeline with the feature list of run_outer_cv drawn from FeatureLists
NextCV ==
    \/ Next
    \/ Fit \/ TrainEval \/ ValEval \/ Report \/ SaveFold \/ Return
    \/ ImputeRead \/ ImputeSelect \/ ImputePredict \/ ImputeWrite
SpecCV == InitCV /\ [][NextCV]_vars

\* -------------------------------------------------------------- claims

Terminated == pc \in {"done", "error"}
\* the installation provides the names line 20 imports
Imported == ImportNames \subseteq model_selection
GroupsOf(gs, S) == {gs[i] : i \in S}
\* the frame has gone through the merge step and the year-month step
Grouped == SampleKeys \subseteq dfCols
CellOf(r) == <<r.g50, r.ym>>
DrawnFrom(k) == Cardinality({i \in 1..Len(applied) : CellOf(applied[i]) = k})
Abs(x) == IF x < 0 THEN 0 - x ELSE x

\* C1: when the 10-fold group split succeeds, the ten validation index sets are
\* pairwise disjoint and cover every row position of the sampled frame, every
\* coarse group lies in exactly one fold's validation set, and in every fold
\* the groups of the training rows and of the validation rows are disjoint.
C1_FoldPartition ==
    outer_cv # <<>> =>
       LET n == Len(df_ml)
           gs == Groups(df_ml)
       IN /\ Len(outer_cv) = NSplits
          /\ \A f, h \in 1..NSplits :
                f # h => outer_cv[f].val \cap outer_cv[h].val = {}
          /\ UNION {outer_cv[f].val : f \in 1..NSplits} = 1..n
          /\ \A g \in Range(gs) :
                Cardinality({f \in 1..NSplits :
                               g \in GroupsOf(gs, outer_cv[f].val)}) = 1
          /\ \A f \in 1..NSplits :
                GroupsOf(gs, outer_cv[f].trn)
                   \cap GroupsOf(gs, outer_cv[f].val) = {}
\* a split of more groups than folds, one of the groups with two rows
C1_Witness ==
    /\ outer_cv # <<>>
    /\ Cardinality(Range(Groups(df_ml))) > NSplits
    /\ Len(df_ml) > Cardinality(Range(Groups(df_ml)))

\* C2: with the fraction 0.03 of the code, every (coarse group, year-month)
\* cell the sampler has gone through has given the nearest integer to
\* 0.03 * cell size rows, fewer than the cell has; the rows drawn are rows of
\* the frame, none more often than the frame holds it, and none is of a cell
\* not yet gone through; a cell of 100 rows gives 3 rows, four of them 12.
C2_SampleCounts ==
    /\ SampleSize(100) = 3 /\ 4 * SampleSize(100) = 12
    /\ Grouped =>
          LET keys == SortKeys(CellKeys(df)) IN
          /\ \A j \in 1..Len(keys) :
                LET size == BagSize(Cell(df, keys[j])) IN
                IF j <= cellPos
                THEN /\ 2 * Abs(FracDen * DrawnFrom(keys[j]) - FracNum * size)
                           <= FracDen
                     /\ DrawnFrom(keys[j]) < size
                ELSE DrawnFrom(keys[j]) = 0
          /\ \A i \in 1..Len(applied) :
                /\ applied[i] \in Support(df)
                /\ Occurrences(applied, applied[i]) <= df[applied[i]]
                /\ \E j \in 1..cellPos : keys[j] = CellOf(applied[i])
          /\ pc \notin {"sample", "error"} => df_sampled = applied
\* two different rows drawn from one cell, the sampled frame built
C2_Witness ==
    /\ pc = "print"
    /\ Len(df_sampled) = 2
    /\ df_sampled[1] # df_sampled[2]
    /\ CellOf(df_sampled[1]) = CellOf(df_sampled[2])

Mapped(f) == \E p \in gridRows : p[1] = f
SameRecord(q, r) == q.grid_id = r.grid_id /\ q.ym = r.ym /\ q.key = r.key
\* C7: after the left join with a mapping table, every primary record is still
\* in the frame, the records of an unmapped fine identifier have a null coarse
\* group, and no row drawn by the sampler, saved in the snapshot or read back
\* from it has a null coarse group.
C7_UnmappedExcluded ==
    (gridExists /\ "year_month" \in dfCols) =>
       /\ \A r \in Support(primary) :
             SumOver(df, {q \in Support(df) : SameRecord(q, r)}) >= primary[r]
       /\ \A q \in Support(df) : ~Mapped(q.grid_id) => q.g50 = {}
       /\ \A i \in 1..Len(applied) : applied[i].g50 # {}
       /\ \A i \in 1..Len(df_sampled) : df_sampled[i].g50 # {}
       /\ \A i \in 1..Len(snapshot.rows) : snapshot.rows[i].g50 # {}
       /\ \A i \in 1..Len(df_ml) : df_ml[i].g50 # {}
\* a mapping that leaves a cell of unmapped records large enough to be drawn
\* from, beside a mapped cell that a row was drawn from
C7_Witness ==
    /\ gridExists /\ pc = "read_ml"
    /\ \E q \in Support(df) : q.g50 = {}
    /\ SumOver(df, {q \in Support(df) : q.g50 = {}}) >= SmallCell
    /\ Len(snapshot.rows) >= 1

\* C8: without a mapping table and without a coarse-group column in the primary
\* table, the merge is skipped, the run fails at the grouped sampling of line
\* 55 (when it has not failed before it: at the import of line 20, or at line
\* 38 without a date column) and goes no further: no snapshot, no fold, no
\* fit, no imputed output.
C8_NoGroupColumn ==
    (~gridExists /\ GroupCol \notin primaryCols) =>
       /\ pc \in {"import", "load", "merge", "year_month", "sample", "error"}
       /\ pc \in {"year_month", "sample"} =>
             df = primary /\ dfCols \ {"year_month"} = primaryCols
       /\ pc = "error" =>
             err = IF ~Imported THEN Raise("ImportError", 20)
                   ELSE IF "date" \notin primaryCols THEN Raise("KeyError", 38)
                   ELSE Raise("KeyError", 55)
       /\ ~snapshot.exists /\ df_sampled = <<>> /\ applied = <<>>
       /\ fold = 0 /\ fitLog = {} /\ files = <<>> /\ ~imputed
C8_Witness ==
    /\ ~gridExists /\ GroupCol \notin primaryCols
    /\ BagSize(primary) >= SmallCell
    /\ pc = "error" /\ err = Raise("KeyError", 55)

\* the lines of the fold loop where int(...) or a library call can raise
FoldFailLines == {101, 102, 112, 113, 121, 124}
\* fold k has been gone through by the loop
FoldOver(k) ==
    /\ k <= fold
    /\ k < fold \/ pc \notin {"fit", "train_eval", "val_eval"}
    /\ ~(pc = "error" /\ err.line \in FoldFailLines)
\* C4: as main calls run_outer_cv (its own feature list, target aod), every fold
\* the loop has gone through has produced a training and a validation
\* prediction table, for the rows of its partition, with the date, the fine
\* identifier, the observed and the predicted target.
C4_FoldTables ==
    features = FeatureCols =>
       \A k \in 1..NSplits :
          FoldOver(k) =>
             /\ k <= Len(train_dfs) /\ k <= Len(eval_dfs)
             /\ train_dfs[k].rows = outer_cv[k].trn
             /\ train_dfs[k].cols = IdCols \cup {"y_trn", "trn_y_pred"}
             /\ eval_dfs[k].rows = outer_cv[k].val
             /\ eval_dfs[k].cols = IdCols \cup {"y_val", "y_pred"}

\* C3: the model that predict is called on at the imputation step, and the
\* model run_outer_cv returns, is the model fitted in the tenth fold, on the
\* tenth fold's training rows and the model columns, as that fit left it.
C3_LastFoldModel ==
    LET last == [fold |-> NSplits, fitted |-> TRUE, cols |-> features \ DropCols,
                 rows |-> outer_cv[NSplits].trn]
    IN /\ final_model # NoModel => final_model = last /\ fitLog = 1..NSplits
       /\ imputeModel # NoModel => imputeModel = last /\ imputeModel = final_model
C3_Witness ==
    /\ pc = "impute_write"
    /\ imputeModel.fold = NSplits
    /\ Len(df_ml) > NSplits

\* C5: when the missing-target table lacks a column of the feature list, predict
\* is not called at the imputation step and no imputed output is written: once
\* run_outer_cv has returned, the run ends in the KeyError of line 190 or 191.
C5_MissingColumnFails ==
    ~(features \subseteq missingCols) =>
       /\ imputeModel = NoModel /\ ~imputed
       /\ pc \notin {"impute_predict", "impute_write", "done"}
       /\ (pc = "error" /\ final_model # NoModel) =>
             err \in {Raise("KeyError", 190), Raise("KeyError", 191)}
C5_Witness ==
    /\ missingCols = MissingFull \ {"aot_daily"}
    /\ final_model.fold = NSplits
    /\ pc = "error" /\ err = Raise("KeyError", 191)
    /\ imputeModel = NoModel /\ ~imputed

PrimaryDefect == ~(BaseCols \subseteq primaryCols)
MissingDefect == ~((FeatureCols \cup {"date"}) \subseteq missingCols)
\* C6: in a run whose primary table or missing-target table lacks a required
\* column (a feature, the target, date or grid_id) no fit is ever called: the
\* run never gets to a fit, binds no regressor and returns no model.  When the
\* column is absent from the primary table the run ends in a KeyError before
\* the fold loop (or, before that, in the ImportError of line 20); otherwise
\* it ends, before the first fit, in an error of line 20, 55, 79 or 91.
C6_DefectNoFit ==
    (PrimaryDefect \/ MissingDefect) =>
       /\ fitLog = {} /\ evalLog = {}
       /\ model_xgb = NoModel /\ final_model = NoModel
       /\ pc \notin {"fit", "train_eval", "val_eval", "save",
                     "impute_read", "impute_select", "impute_predict",
                     "impute_write", "done"}
       /\ PrimaryDefect =>
             /\ fold = 0 /\ pc # "fold_begin"
             /\ pc = "error" =>
                   IF Imported THEN err.kind = "KeyError" /\ err.line < 79
                   ELSE err = Raise("ImportError", 20)
       /\ (pc = "error" /\ ~PrimaryDefect) => err.line \in {20, 55, 79, 91}
\* the primary table lacks the target and the missing-target table a column:
\* the run has sampled, read the snapshot back and ended at line 77
C6_Witness ==
    /\ TargetCol \notin primaryCols /\ MissingDefect
    /\ features = FeatureCols
    /\ Len(df_ml) >= NSplits
    /\ pc = "error" /\ err = Raise("KeyError", 77)

\* some fold of the group split of gs has no training row or no validation row
HasEmptyFold(folds) ==
    \E f \in 1..NSplits : folds[f].val = {} \/ folds[f].trn = {}
EmptyFold(gs) == \E tb \in TieBreaks : HasEmptyFold(GroupKFoldFolds(gs, tb))
\* C9: no fit is called on an empty training partition and no validation
\* prediction on an empty validation partition; when the groups of the sampled
\* frame would leave a fold without training or validation rows, the run ends
\* in the ValueError of the split (or, with a column missing, in an earlier
\* KeyError): no fold is begun, no file is written; a split that was made has
\* left no fold without training or validation rows.
C9_NoEmptyPartition ==
    /\ \A k \in fitLog : outer_cv[k].trn # {}
    /\ \A k \in evalLog : outer_cv[k].val # {}
    /\ outer_cv # <<>> => ~HasEmptyFold(outer_cv)
    /\ (outer_cv = <<>> /\ mlCols # {} /\ EmptyFold(Groups(df_ml))) =>
          /\ pc \in {"cv_select", "cv_split", "error"}
          /\ pc = "error" =>
                \/ err = Raise("ValueError", 79)
                \/ PrimaryDefect /\ err.kind = "KeyError" /\ err.line < 79
          /\ fold = 0 /\ fitLog = {} /\ evalLog = {}
          /\ files = <<>> /\ ~imputed
C9_Witness ==
    /\ features # FeatureCols
    /\ Cardinality(Range(Groups(df_ml))) = NSplits - 1
    /\ pc = "error" /\ err = Raise("ValueError", 79)

FileKinds == <<"feature_importance", "traindf", "evaldf">>
\* C10: a per-fold file is written only after all ten folds were fitted and
\* evaluated and the averages reported; a run that fails in a fit, a predict or
\* a metric of a fold has written none; the files are written fold by fold,
\* the three files named for fold i holding fold i's importances, training
\* predictions and validation predictions, each written once.
C10_FilesAfterAllFolds ==
    /\ files # <<>> =>
          /\ reported
          /\ fitLog = 1..NSplits /\ evalLog = 1..NSplits
          /\ Len(trn_metrics) = NSplits /\ Len(cv_metrics) = NSplits
    /\ (pc = "error" /\ err.line \in FoldFailLines) => files = <<>>
    /\ \A j \in 1..Len(files) :
          /\ files[j].fold = ((j - 1) \div 3) + 1
          /\ files[j].kind = FileKinds[((j - 1) % 3) + 1]
          /\ files[j].data = files[j].fold
    /\ Len(files) <= 3 * NSplits
    /\ final_model # NoModel => Len(files) = 3 * NSplits
\* the fit of the tenth fold fails after nine folds were fitted and evaluated
C10_Witness ==
    /\ pc = "error" /\ err = Raise("XGBoostError", 102)
    /\ fold = NSplits /\ Len(eval_dfs) = NSplits - 1
    /\ files = <<>>
====
